---------------------------- MODULE Spec2Model ----------------------------
(***************************************************************************)
(* A model of merit.Org (src/merit/org.py) and its base class merit.Merit  *)
(* (src/merit/merit.py): the token session (org_access_token,              *)
(* authenticated_at, auth_timeout), the get_api / post_api choke point,    *)
(* the domain methods built on it and the paginated listings.              *)
(*                                                                         *)
(* The platform is the environment: every HTTP answer is chosen by \E.     *)
(* Time is a clock in whole seconds advanced by Tick.                      *)
(***************************************************************************)
EXTENDS Integers, Sequences, FiniteSets, TLC

VARIABLES
    self,    \* the fields of the Org object
    now,     \* datetime.datetime.now(), in seconds
    ticks,   \* how often time has advanced
    stub,    \* the platform: what its answers and the callers' arguments range over
    pc,      \* "new" before Org(...), "idle" between calls, "busy" inside a method
    call,    \* the method being executed and its local variables
    trace,   \* the HTTP exchanges of the current (or, when idle, the last) call
    ret      \* what the last call returned or raised

vars == <<self, now, ticks, stub, pc, call, trace, ret>>

(***************************************************************************)
(* Bounds of the model                                                     *)
(***************************************************************************)
MaxTicks == 2
MaxPages == 3
MaxLimit == 3
MaxFields == 1

(***************************************************************************)
(* Python values                                                           *)
(***************************************************************************)
\* Python's None where a string is expected
None == "<None>"
\* authenticated_at = None (org.py:42)
NoTime == -1

PyNone == [ty |-> "NoneType", v |-> "", items |-> <<>>]
PyStr(s) == [ty |-> "str", v |-> s, items |-> <<>>]
PyInt(s) == [ty |-> "int", v |-> s, items |-> <<>>]
PyList(xs) == [ty |-> "list", v |-> "", items |-> xs]

\* Python truthiness of a value: None, "", 0 and [] are falsy
Truthy(x) ==
    CASE x.ty = "NoneType" -> FALSE
      [] x.ty = "str" -> x.v # ""
      [] x.ty = "int" -> x.v # "0"
      [] x.ty = "list" -> x.items # <<>>
      [] OTHER -> TRUE


(***************************************************************************)
(* The token session: Org.__init__, get_org_access_token, authenticate     *)
(***************************************************************************)
\* self.auth_timeout = 3600 # seconds
auth_timeout == 3600

\* values of org_id: the constructor's argument and the platform's orgId
OrgIds == {"org1", "org2"}

\* how much simulated time one Tick lets pass
Deltas == {1, auth_timeout}

\* answers of POST /orgs/{org_id}/access: 200 with or without the
\* orgAccessToken key, or an error status
RefreshResponses ==
    {[status |-> 200, token |-> t] : t \in stub.tokens \cup {None}}
        \cup {[status |-> 401, token |-> None]}

\* the query parameters of a request; None for a key that is not sent
NoParams ==
    [limit |-> 0, merit_status |-> None, merittemplate_id |-> None,
     recipient_email |-> None, starting_after |-> None]

\* one HTTP exchange as the transport saw it: the request (verb, bearer,
\* query parameters, requestedPermissions of the JSON body), the time t it
\* was sent at, and the answer (status, orgAccessToken, the number n of
\* merits, hasNextPage, the cursor). site is the line of authenticate() or
\* __init__ a refresh was sent from.
Entry(kind, site, verb, bearer, req, t, status, token, n, hasNextPage, after) ==
    [kind |-> kind, site |-> site, verb |-> verb, bearer |-> bearer,
     params |-> req.params, body |-> req.body, t |-> t, status |-> status,
     token |-> token, n |-> n, hasNextPage |-> hasNextPage, after |-> after]

NoReq == [params |-> NoParams, body |-> <<>>]

\* POST {domain}/orgs/{org_id}/access with Basic auth
RefreshEntry(site, resp, t) ==
    Entry("refresh", site, "POST", None, NoReq, t, resp.status, resp.token,
          0, "absent", None)

\* a request of get_api / post_api and its answer d
DomainEntry(verb, bearer, req, t, d) ==
    Entry("domain", "", verb, bearer, req, t, d.status, None,
          d.n, d.hasNextPage, d.after)

\* a Basic-authenticated request of class Merit and its answer d
BasicEntry(verb, t, d) ==
    Entry("basic", "", verb, None, NoReq, t, d.status, None, 0, "absent", None)

\* the fields as __init__ leaves them before its get_org_access_token() call
NewSelf(org_id) ==
    [org_id |-> org_id, auth_timeout |-> auth_timeout,
     authenticated_at |-> NoTime, org_access_token |-> None]

\* (variant) a failed refresh forgets the token
get_org_access_token_ClearsOnFailure(s, t, resp) ==
    IF resp.status = 200
    THEN [s EXCEPT !.authenticated_at = t, !.org_access_token = resp.token]
    ELSE [s EXCEPT !.org_access_token = None]

\* get_org_access_token: the effect on the fields of one answer
get_org_access_token(s, t, resp) ==
    IF resp.status = 200
    THEN [s EXCEPT !.authenticated_at = t, !.org_access_token = resp.token]
    ELSE s

\* `not self.org_access_token`
TokenAbsent(s) == s.org_access_token \in {None, ""}

\* (variant) the comparison the other way round
IsStale_Reversed(s, t) == s.authenticated_at > t - s.auth_timeout

\* (variant) a token exactly auth_timeout old counts as stale
IsStale_Inclusive(s, t) == s.authenticated_at <= t - s.auth_timeout

\* self.authenticated_at < (now - timedelta(seconds=self.auth_timeout))
IsStale(s, t) == s.authenticated_at < t - s.auth_timeout

\* authenticate(): the fields after it, the refresh requests it sent, and
\* whether it raised (None < datetime is a TypeError)
authenticate(s, t, r1, r2) ==
    LET first == TokenAbsent(s)
        s1 == IF first THEN get_org_access_token(s, t, r1) ELSE s
        sent1 == IF first THEN <<RefreshEntry("absent", r1, t)>> ELSE <<>>
    IN  IF s1.authenticated_at = NoTime
        THEN [self |-> s1, sent |-> sent1, raised |-> TRUE]
        ELSE IF IsStale(s1, t)
             THEN [self |-> get_org_access_token(s1, t, r2),
                   sent |-> Append(sent1, RefreshEntry("stale", r2, t)),
                   raised |-> FALSE]
             ELSE [self |-> s1, sent |-> sent1, raised |-> FALSE]

\* the answers authenticate() can get to its first and to its second
\* get_org_access_token() call: a call it does not make has one dummy answer
NoRefresh == [status |-> 0, token |-> None]
FirstAnswers(s) == IF TokenAbsent(s) THEN RefreshResponses ELSE {NoRefresh}
SecondAnswers(s, t, r1) ==
    LET s1 == IF TokenAbsent(s) THEN get_org_access_token(s, t, r1) ELSE s
    IN  IF s1.authenticated_at # NoTime /\ IsStale(s1, t)
        THEN RefreshResponses ELSE {NoRefresh}

\* (variant) the Authorization header is built before authenticate() runs
get_api_HeaderFirst(s, t, r1, r2, req, d) ==
    LET a == authenticate(s, t, r1, r2)
    IN  IF a.raised
        THEN [self |-> a.self, sent |-> a.sent, raised |-> TRUE]
        ELSE [self |-> a.self,
              sent |-> Append(a.sent,
                         DomainEntry("GET", s.org_access_token, req, t, d)),
              raised |-> FALSE]

\* get_api / post_api: authenticate, then one bearer request whose answer d
\* is returned whatever its status
get_api(s, t, r1, r2, req, d) ==
    LET a == authenticate(s, t, r1, r2)
    IN  IF a.raised
        THEN [self |-> a.self, sent |-> a.sent, raised |-> TRUE]
        ELSE [self |-> a.self,
              sent |-> Append(a.sent,
                         DomainEntry("GET", a.self.org_access_token, req, t, d)),
              raised |-> FALSE]

post_api(s, t, r1, r2, req, d) ==
    LET a == authenticate(s, t, r1, r2)
    IN  IF a.raised
        THEN [self |-> a.self, sent |-> a.sent, raised |-> TRUE]
        ELSE [self |-> a.self,
              sent |-> Append(a.sent,
                         DomainEntry("POST", a.self.org_access_token, req, t, d)),
              raised |-> FALSE]

(***************************************************************************)
(* Calls, answers and results                                              *)
(***************************************************************************)
\* limit: int = 100, the default of get_member_merits as member_has_active_merit uses it
DefaultLimit == 100

\* the sizes of the pages the platform serves: small pages against small
\* limits, pages of tens against the default
MaxPageSize == 2
PageSizes(limit) == IF limit <= MaxLimit THEN 0..MaxPageSize ELSE {20, 40, 60}

\* what a method returned or raised: val names the value or the exception,
\* list holds a returned merit list, got the list get_template_field_choices
\* builds; of an exception, where says whether parameter validation,
\* authenticate() or the method's own body raised it, and arg is the
\* argument validation rejected (with org_ids, what login_with_merit was
\* given next to it)
Ret(kind, val, list, where, arg) ==
    [kind |-> kind, val |-> val, list |-> list, got |-> <<>>, where |-> where,
     arg |-> arg, org_ids |-> PyNone]
NoRet == Ret("none", "", <<>>, "", PyNone)
Return(val) == Ret("return", val, <<>>, "", PyNone)
ReturnList(list) == Ret("return", "list", list, "", PyNone)
Raise(exc, where) == Ret("raise", exc, <<>>, where, PyNone)
Reject(exc, arg) == Ret("raise", exc, <<>>, "validate", arg)

\* the position of the method being executed
\* arg is the argument that passed validation (merit_status, permissions)
Call(op, stage, limit, params, body, arg) ==
    [op |-> op, stage |-> stage, limit |-> limit, params |-> params,
     body |-> body, arg |-> arg, org_ids |-> PyNone, merit_list |-> <<>>,
     left |-> 0, got |-> <<>>]
IdleCall == Call("idle", "", 0, NoParams, <<>>, PyNone)

\* an answer to a bearer request: body "full" holds the keys the method
\* reads, "empty" is a JSON object without them
Resp(status, body) ==
    [status |-> status, body |-> body, n |-> 0, hasNextPage |-> "absent",
     after |-> None, active |-> 0]
SimpleResponses == {Resp(200, "full"), Resp(200, "empty"), Resp(500, "empty")}
\* GET /merittemplates/{id}: n enabledFieldSettings
TemplateResponses ==
    {[Resp(200, "full") EXCEPT !.n = n] : n \in 0..MaxFields}
        \cup {Resp(200, "empty"), Resp(500, "empty")}
\* a page of a listing: n merits (the active-th of them active, 0 for none),
\* paging.pageInfo.hasNextPage true, false or absent, and a cursor or none.
\* The platform's pages are finite: its last page never says hasNextPage.
ListResponses(sizes, cursors, withActive, last) ==
    {[status |-> 200, body |-> "full", n |-> n, hasNextPage |-> h,
      after |-> a, active |-> act] :
        n \in sizes,
        h \in (IF last THEN {"false", "absent"} ELSE {"true", "false", "absent"}),
        a \in cursors \cup {None},
        act \in (IF withActive THEN {0, 1} ELSE {0})}
        \cup {Resp(500, "empty")}

\* the merits of the k-th page served
Items(k, d) ==
    [i \in 1..d.n |-> [page |-> k, idx |-> i, active |-> (i = d.active)]]

\* the domain requests already sent by the method being executed
DomainCount(tr) == Cardinality({i \in 1..Len(tr) : tr[i].kind = "domain"})

(***************************************************************************)
(* The methods of Org, one answer at a time                                *)
(***************************************************************************)
ListingOps == {"get_all_merits", "get_member_merits", "member_has_active_merit"}

\* methods sending one request and reading one key of a 200 answer
KeyOps ==
    {"login_with_merit", "get_member_id_from_token", "get_member_info",
     "get_member_access_merit", "get_org_info", "propose_merit", "send_merit",
     "uuid_translation", "update_email"}
\* methods returning the whole JSON body of a 200 answer
JsonOps == {"get_field", "get_merit_template", "get_merit"}
\* methods returning a bool
BoolOps == {"edit_merit", "revoke_merit"}
\* methods with no parameter validation, started by BeginPlain
PlainOps ==
    (KeyOps \ {"login_with_merit", "get_member_id_from_token"}) \cup JsonOps
        \cup BoolOps
        \cup {"get_all_org_merit_templates", "get_org_merit_template_choices",
              "get_template_field_choices"}

\* the attributes class Org defines or inherits
OrgAttributes ==
    ListingOps \cup KeyOps \cup JsonOps \cup BoolOps
        \cup {"search_orgs", "get_all_org_merit_templates",
              "get_org_merit_template_choices", "get_template_field_choices",
              "get_template_pending_merits", "get_org_access_token",
              "authenticate", "get_api", "post_api", "link_with_merit",
              "get_org_id_from_token"}

\* the value a one-request method makes of its answer
SimpleResult(op, d) ==
    CASE op \in KeyOps ->
            IF d.status = 200 /\ d.body = "full" THEN Return("value") ELSE Return("None")
      [] op \in JsonOps ->
            IF d.status = 200 THEN Return("value") ELSE Return("None")
      [] op \in BoolOps ->
            IF d.status = 200 THEN Return("True") ELSE Return("False")
      [] op = "search_orgs" ->
            IF d.status = 200 /\ d.body = "full" THEN Return("value") ELSE ReturnList(<<>>)
      [] op = "get_all_org_merit_templates" ->
            IF d.status = 200
            THEN (IF d.body = "full" THEN Return("value") ELSE Return("None"))
            ELSE ReturnList(<<>>)

\* (variant) stop only once the limit is exceeded
ReachedLimit_Strict(merit_list, limit) == Len(merit_list) > limit

\* if len(merit_list) >= limit
ReachedLimit(merit_list, limit) == Len(merit_list) >= limit

\* (variant) a missing hasNextPage defaults to True
HasNextPage_DefaultTrue(d) == d.hasNextPage # "false"

\* data.get("paging", {}).get("pageInfo", {}).get("hasNextPage", False)
HasNextPage(d) == d.hasNextPage = "true"

\* (variant) the cursor of the answer is not taken over
AfterCursor_Blank(d) == ""

\* data.get("paging", {}).get("cursors", {}).get("after", "")
AfterCursor(d) == IF d.after = None THEN "" ELSE d.after

\* what the caller of get_member_merits / get_all_merits gets
ListingReturn(op, merit_list) ==
    IF op = "member_has_active_merit"
    THEN (IF \E i \in 1..Len(merit_list) : merit_list[i].active
          THEN Return("True") ELSE Return("False"))
    ELSE ReturnList(merit_list)

Done(r) == [done |-> TRUE, call |-> IdleCall, ret |-> r]
Go(c) == [done |-> FALSE, call |-> c, ret |-> NoRet]

\* (variant) a failed page returns a fresh empty list
ListStep_DropsPartial(c, d, k) ==
    IF d.status # 200
    THEN Done(ListingReturn(c.op, <<>>))
    ELSE LET ml == c.merit_list \o Items(k, d)
         IN  IF ReachedLimit(ml, c.limit)
             THEN Done(ListingReturn(c.op, ml))
             ELSE IF HasNextPage(d)
                  THEN Go([c EXCEPT !.merit_list = ml,
                                    !.params.starting_after = AfterCursor(d)])
                  ELSE Done(ListingReturn(c.op, ml))

\* one turn of the while next_page loop, given the answer d to its request,
\* the k-th of the call
ListStep(c, d, k) ==
    IF d.status # 200
    THEN Done(ListingReturn(c.op, c.merit_list))
    ELSE LET ml == c.merit_list \o Items(k, d)
         IN  IF ReachedLimit(ml, c.limit)
             THEN Done(ListingReturn(c.op, ml))
             ELSE IF HasNextPage(d)
                  THEN Go([c EXCEPT !.merit_list = ml,
                                    !.params.starting_after = AfterCursor(d)])
                  ELSE Done(ListingReturn(c.op, ml))

\* get_template_field_choices: get_merit_template(template_id), then
\* get_field for each of its enabledFieldSettings
FieldChoicesStep(c, d) ==
    IF c.stage = "template"
    THEN IF d.status # 200
         THEN Done(Raise("AttributeError", "body"))
         ELSE IF d.body # "full"
              THEN Done(Raise("TypeError", "body"))
              ELSE IF d.n = 0
                   THEN Done([ReturnList(<<>>) EXCEPT !.got = <<>>])
                   ELSE Go([c EXCEPT !.stage = "fields", !.left = d.n])
    ELSE LET got == Append(c.got, SimpleResult("get_field", d).val)
         IN  IF c.left = 1
             THEN Done([ReturnList(<<>>) EXCEPT !.got = got])
             ELSE Go([c EXCEPT !.left = c.left - 1, !.got = got])

\* get_org_merit_template_choices: loops over get_all_org_merit_templates()
\* and has no return statement
TemplateChoicesStep(c, d) ==
    IF SimpleResult("get_all_org_merit_templates", d).val = "None"
    THEN Done(Raise("TypeError", "body"))
    ELSE Done(Return("None"))

\* what the method makes of the answer to its k-th request
Continue(c, d, k) ==
    CASE c.op \in ListingOps -> ListStep(c, d, k)
      [] c.op = "get_template_field_choices" -> FieldChoicesStep(c, d)
      [] c.op = "get_org_merit_template_choices" -> TemplateChoicesStep(c, d)
      [] OTHER -> Done(SimpleResult(c.op, d))

\* the answers the platform may give to the k-th request of the call
ResponsesFor(c, k) ==
    CASE c.op \in ListingOps ->
            ListResponses(stub.sizes \cap PageSizes(c.limit), stub.cursors,
                          c.op = "member_has_active_merit", k >= stub.pages)
      [] c.op = "get_template_field_choices" /\ c.stage = "template" ->
            TemplateResponses
      [] OTHER -> SimpleResponses

(***************************************************************************)
(* Parameter validation                                                    *)
(***************************************************************************)
valid_statuses ==
    {"Accepted", "Forfeited", "Pending", "Rejected", "Reported", "Revoked",
     "Transferred", "TransferredUnverified", "Unapproved",
     "UnapprovedUnverified", "Unverified"}

valid_permissions ==
    {"CanViewPublicProfile", "CanViewAllStandardMeritsFromOrg",
     "CanViewAllStandardMerits"}

\* merit_status not in valid_statuses
NotInValidStatuses(x) == ~(x.ty = "str" /\ x.v \in valid_statuses)

\* (variant) only strings are checked against valid_statuses
StatusRejected_StringsOnly(merit_status) ==
    merit_status.ty = "str" /\ Truthy(merit_status)
        /\ NotInValidStatuses(merit_status)

\* if merit_status and merit_status not in valid_statuses: raise
StatusRejected(merit_status) ==
    Truthy(merit_status) /\ NotInValidStatuses(merit_status)

\* the exception the permissions loop raises on element x, or None
PermissionError(x) ==
    IF x.ty # "str" THEN "TypeError"
    ELSE IF x.v \notin valid_permissions THEN "RequestedPermissionException"
    ELSE None

\* (variant) the elements of org_ids are not looked at
OrgIdError_Unchecked(x) == None

\* the exception the org_ids loop raises on element x, or None
OrgIdError(x) == IF x.ty # "str" THEN "TypeError" ELSE None

\* the exception a for loop ends with, errs[i] being what its i-th turn
\* raises (None for a turn that raises nothing)
FirstError(errs) ==
    LET bad == {i \in 1..Len(errs) : errs[i] # None}
    IN  IF bad = {} THEN None
        ELSE errs[CHOOSE i \in bad : \A j \in bad : i <= j]

\* (variant) the orgId entries are put in front of the base entries
LoginValidate_OrgsFirst(permissions, org_ids) ==
    LET base == [i \in 1..Len(permissions.items) |->
                    [permissionType |-> permissions.items[i].v, orgId |-> None]]
        scoped == \E i \in 1..Len(permissions.items) :
                     permissions.items[i].v = "CanViewAllStandardMeritsFromOrg"
        orgs == [i \in 1..Len(org_ids.items) |->
                    [permissionType |-> "CanViewAllStandardMeritsFromOrg",
                     orgId |-> org_ids.items[i].v]]
        permErr == FirstError([i \in 1..Len(permissions.items) |->
                                  PermissionError(permissions.items[i])])
        orgErr == FirstError([i \in 1..Len(org_ids.items) |->
                                 OrgIdError(org_ids.items[i])])
        ok(body) == [exc |-> None, body |-> body]
        err(e) == [exc |-> e, body |-> <<>>]
    IN  IF permissions.ty # "list" THEN err("TypeError")
        ELSE IF permErr # None THEN err(permErr)
        ELSE IF ~scoped THEN ok(base)
        ELSE IF ~Truthy(org_ids) THEN err("RequestedPermissionException")
        ELSE IF org_ids.ty # "list" THEN err("TypeError")
        ELSE IF orgErr # None THEN err(orgErr)
        ELSE ok(orgs \o base)

\* login_with_merit, lines 132-155: the exception raised, or None and the
\* requested_permissions built
LoginValidate(permissions, org_ids) ==
    LET base == [i \in 1..Len(permissions.items) |->
                    [permissionType |-> permissions.items[i].v, orgId |-> None]]
        scoped == \E i \in 1..Len(permissions.items) :
                     permissions.items[i].v = "CanViewAllStandardMeritsFromOrg"
        orgs == [i \in 1..Len(org_ids.items) |->
                    [permissionType |-> "CanViewAllStandardMeritsFromOrg",
                     orgId |-> org_ids.items[i].v]]
        permErr == FirstError([i \in 1..Len(permissions.items) |->
                                  PermissionError(permissions.items[i])])
        orgErr == FirstError([i \in 1..Len(org_ids.items) |->
                                 OrgIdError(org_ids.items[i])])
        ok(body) == [exc |-> None, body |-> body]
        err(e) == [exc |-> e, body |-> <<>>]
    IN  IF permissions.ty # "list" THEN err("TypeError")
        ELSE IF permErr # None THEN err(permErr)
        ELSE IF ~scoped THEN ok(base)
        ELSE IF ~Truthy(org_ids) THEN err("RequestedPermissionException")
        ELSE IF org_ids.ty # "list" THEN err("TypeError")
        ELSE IF orgErr # None THEN err(orgErr)
        ELSE ok(base \o orgs)

\* a string parameter as a query parameter: sent when truthy
Param(x) == IF Truthy(x) THEN x.v ELSE None

(***************************************************************************)
(* Arguments the callers supply                                            *)
(***************************************************************************)
MaxPerms == 2

SeqsUpTo(S, n) == UNION {[1..m -> S] : m \in 0..n}

PermElems ==
    {PyStr(p) : p \in valid_permissions} \cup {PyStr("Bogus"), PyInt("7")}
PermInputs ==
    {PyStr("CanViewPublicProfile")}
        \cup {PyList(xs) : xs \in SeqsUpTo(PermElems, MaxPerms)}
OrgIdInputs ==
    {PyNone, PyList(<<>>), PyStr("org2"), PyList(<<PyStr("org2")>>),
     PyList(<<PyStr("org2"), PyStr("org3")>>), PyList(<<PyInt("7")>>),
     PyList(<<PyStr("org2"), PyInt("7")>>)}
StatusInputs ==
    {PyNone, PyStr(""), PyInt("0"), PyInt("7"), PyStr("Bogus"),
     PyStr("accepted"), PyList(<<PyStr("Accepted")>>)}
        \cup {PyStr(x) : x \in valid_statuses}
\* template_id, merit_status and email of a listing call
Filter(template_id, merit_status, email) ==
    [template_id |-> template_id, merit_status |-> merit_status, email |-> email]

\* The platform and the callers of the session runs: every method is
\* called, listings with limit 1 against at most 2 pages of 0 or 1 merits.
SessionStub ==
    [tokens |-> {"tokA", "tokB"}, limits |-> {1}, sizes |-> {0, 1},
     cursors |-> {}, pages |-> 2,
     filters |-> {Filter(PyNone, x, PyNone) :
                     x \in StatusInputs \ {PyStr(x) : x \in valid_statuses \ {"Pending"}}}]

\* The platform and the callers of the listing runs: limits 1..MaxLimit
\* and the default, pages of 0..MaxPageSize and of 20, 40 and 60 merits.
ListingStub ==
    [tokens |-> {"tokA"}, limits |-> (1..MaxLimit) \cup {DefaultLimit},
     sizes |-> (0..MaxPageSize) \cup {20, 40, 60}, cursors |-> {"c1", "c2"},
     pages |-> MaxPages,
     filters |-> {Filter(PyNone, PyNone, PyNone),
                  Filter(PyStr("tpl1"), PyStr("Pending"), PyStr("a@b.c"))}]
MemberInputs == {PyStr("m1"), PyInt("7")}
QueryInputs == {"", "ab", "abc", "abcd"}

(***************************************************************************)
(* Actions                                                                 *)
(***************************************************************************)
Init ==
    /\ self = NewSelf("org1")
    /\ now = 0
    /\ ticks = 0
    /\ stub = SessionStub
    /\ pc = "new"
    /\ call = IdleCall
    /\ trace = <<>>
    /\ ret = NoRet

\* time passes; between calls, what was observed of the last call is dropped
Tick ==
    /\ pc # "new"
    /\ ticks < MaxTicks
    /\ \E d \in Deltas : now' = now + d
    /\ ticks' = ticks + 1
    /\ trace' = IF pc = "idle" THEN <<>> ELSE trace
    /\ ret' = IF pc = "idle" THEN NoRet ELSE ret
    /\ UNCHANGED <<self, stub, pc, call>>

\* Org.__init__: self.org_access_token = self.get_org_access_token()
OrgInit ==
    /\ pc = "new"
    /\ \E r \in RefreshResponses :
          /\ self' = get_org_access_token(self, now, r)
          /\ trace' = <<RefreshEntry("init", r, now)>>
    /\ pc' = "idle"
    /\ ret' = Return("Org")
    /\ UNCHANGED <<now, ticks, stub, call>>

\* a method starts: its validation passed and its first request is next
Start(c) ==
    /\ pc' = "busy"
    /\ call' = c
    /\ trace' = <<>>
    /\ ret' = NoRet
    /\ UNCHANGED <<self, now, ticks, stub>>

\* a method ends before any request with r
Finish(r) ==
    /\ pc' = "idle"
    /\ call' = IdleCall
    /\ trace' = <<>>
    /\ ret' = r
    /\ UNCHANGED <<self, now, ticks, stub>>

BeginPlain ==
    /\ pc = "idle"
    /\ \E op \in PlainOps :
          Start(Call(op, IF op = "get_template_field_choices" THEN "template" ELSE "",
                     0, NoParams, <<>>, PyNone))

login_with_merit ==
    /\ pc = "idle"
    /\ \E permissions \in PermInputs, org_ids \in OrgIdInputs :
          LET v == LoginValidate(permissions, org_ids)
          IN  IF v.exc # None
              THEN Finish([Reject(v.exc, permissions)
                              EXCEPT !.org_ids = org_ids])
              ELSE Start([Call("login_with_merit", "", 0, NoParams, v.body,
                               permissions) EXCEPT !.org_ids = org_ids])

get_member_id_from_token ==
    /\ pc = "idle"
    /\ \E member_id_token \in MemberInputs :
          IF member_id_token.ty # "str"
          THEN Finish(Reject("TypeError", member_id_token))
          ELSE Start(Call("get_member_id_from_token", "", 0, NoParams, <<>>,
                          PyNone))

search_orgs ==
    /\ pc = "idle"
    /\ \E query \in QueryInputs :
          IF Len(query) < 3
          THEN Finish(Reject("SearchQueryException", PyStr(query)))
          ELSE Start(Call("search_orgs", "", 0, [NoParams EXCEPT !.limit = 10],
                          <<>>, PyNone))

\* get_member_merits lines 252-266, also as member_has_active_merit calls it
MemberMeritsStart(op, member_id, template_id, limit) ==
    IF member_id.ty # "str" \/ (Truthy(template_id) /\ template_id.ty # "str")
    THEN Finish(Reject("TypeError", member_id))
    ELSE Start(Call(op, "", limit,
                    [NoParams EXCEPT !.limit = limit,
                                     !.merittemplate_id = Param(template_id)],
                    <<>>, PyNone))

get_member_merits ==
    /\ pc = "idle"
    /\ \E member_id \in MemberInputs, f \in stub.filters, limit \in stub.limits :
          MemberMeritsStart("get_member_merits", member_id, f.template_id, limit)

member_has_active_merit ==
    /\ pc = "idle"
    /\ \E member_id \in MemberInputs, f \in stub.filters :
          MemberMeritsStart("member_has_active_merit", member_id, f.template_id,
                            DefaultLimit)

\* get_all_merits lines 452-471
AllMeritsStart(template_id, merit_status, email, limit) ==
    IF StatusRejected(merit_status)
    THEN Finish(Reject("MeritStatusException", merit_status))
    ELSE Start(Call("get_all_merits", "", limit,
                    [NoParams EXCEPT !.limit = limit,
                                     !.merit_status = Param(merit_status),
                                     !.merittemplate_id = Param(template_id),
                                     !.recipient_email = Param(email)],
                    <<>>, merit_status))

get_all_merits ==
    /\ pc = "idle"
    /\ \E f \in stub.filters, limit \in stub.limits :
          AllMeritsStart(f.template_id, f.merit_status, f.email, limit)

\* getattr(self, name) succeeds
HasAttr(name) == name \in OrgAttributes

\* get_template_pending_merits: return self.get_all_org_merits(template_id, "Unapproved")
get_template_pending_merits ==
    /\ pc = "idle"
    /\ IF HasAttr("get_all_org_merits")
       THEN AllMeritsStart(PyStr("tpl1"), PyStr("Unapproved"), PyNone, DefaultLimit)
       ELSE Finish(Raise("AttributeError", "body"))

\* the verb a method sends its requests with
Verb(op) ==
    IF op \in {"login_with_merit", "propose_merit", "send_merit", "edit_merit",
               "revoke_merit", "uuid_translation", "update_email"}
    THEN "POST" ELSE "GET"

\* get_api or post_api, as the method calls it
Api(op, s, t, r1, r2, req, d) ==
    IF Verb(op) = "POST"
    THEN post_api(s, t, r1, r2, req, d)
    ELSE get_api(s, t, r1, r2, req, d)

\* the method being executed sends its next request through get_api /
\* post_api and handles the answer
Exchange ==
    /\ pc = "busy"
    /\ LET k == DomainCount(trace) + 1
       IN  \E r1 \in FirstAnswers(self) :
           \E r2 \in SecondAnswers(self, now, r1), d \in ResponsesFor(call, k) :
              LET g == Api(call.op, self, now, r1, r2,
                           [params |-> call.params, body |-> call.body], d)
                  nx == IF g.raised THEN Done(Raise("TypeError", "authenticate"))
                        ELSE Continue(call, d, k)
              IN  /\ self' = g.self
                  /\ trace' = trace \o g.sent
                  /\ pc' = IF nx.done THEN "idle" ELSE "busy"
                  /\ call' = nx.call
                  /\ ret' = nx.ret
    /\ UNCHANGED <<now, ticks, stub>>

\* (variant) org_id is stored whatever the status
get_org_id_from_token_Always(s, d, o) == [s EXCEPT !.org_id = o]

\* Merit.get_org_id_from_token: the fields after the answer d carrying orgId o
get_org_id_from_token(s, d, o) ==
    IF d.status = 200 /\ d.body = "full" THEN [s EXCEPT !.org_id = o] ELSE s


link_with_merit ==
    /\ pc = "idle"
    /\ \E d \in SimpleResponses :
          /\ trace' = <<BasicEntry("POST", now, d)>>
          /\ ret' = SimpleResult("login_with_merit", d)
    /\ UNCHANGED <<self, now, ticks, stub, pc, call>>

OrgIdFromToken ==
    /\ pc = "idle"
    /\ \E d \in SimpleResponses, o \in OrgIds :
          /\ self' = get_org_id_from_token(self, d, o)
          /\ trace' = <<BasicEntry("GET", now, d)>>
          /\ ret' = SimpleResult("get_member_id_from_token", d)
    /\ UNCHANGED <<now, ticks, stub, pc, call>>

Next ==
    \/ Tick
    \/ OrgInit
    \/ BeginPlain
    \/ login_with_merit
    \/ get_member_id_from_token
    \/ search_orgs
    \/ get_member_merits
    \/ member_has_active_merit
    \/ get_all_merits
    \/ get_template_pending_merits
    \/ link_with_merit
    \/ OrgIdFromToken
    \/ Exchange

Spec == Init /\ [][Next]_vars

\* the listing runs: a session is built and only the paginated listings
\* are called on it, at one instant
InitList ==
    /\ self = NewSelf("org1")
    /\ now = 0
    /\ ticks = 0
    /\ stub = ListingStub
    /\ pc = "new"
    /\ call = IdleCall
    /\ trace = <<>>
    /\ ret = NoRet

NextList ==
    \/ OrgInit
    \/ get_member_merits
    \/ get_all_merits
    \/ Exchange

SpecList == InitList /\ [][NextList]_vars

(***************************************************************************)
(* What the properties read off a run                                      *)
(***************************************************************************)
\* the exchanges a step adds to the trace
NewEntries ==
    IF pc = "busy" THEN SubSeq(trace', Len(trace) + 1, Len(trace'))
    ELSE IF pc' = pc /\ trace' = trace THEN <<>>
    ELSE trace'

IsRefresh(e) == e.kind = "refresh"
IsDomain(e) == e.kind = "domain"

\* the bearer requests of the trace, in order
DomainEntries == SelectSeq(trace, IsDomain)

\* get_api / post_api is called in this step
ApiStep == pc = "busy" /\ trace' # trace

\* the merits of the first k pages of P answered 200, in order
RECURSIVE PagesUpTo(_, _)
PagesUpTo(P, k) ==
    IF k = 0 THEN <<>>
    ELSE PagesUpTo(P, k - 1)
            \o (IF P[k].status = 200
                THEN [i \in 1..P[k].n |-> [page |-> k, idx |-> i, active |-> FALSE]]
                ELSE <<>>)

\* a finished listing whose pages were those of script, as far as it went
Follows(P, script) ==
    \A k \in 1..Len(P) :
        /\ k <= Len(script)
        /\ P[k].status = 200
        /\ P[k].n = script[k].n
        /\ P[k].hasNextPage \in script[k].more

(***************************************************************************)
(* C1. Refresh counting: Org(...) sends exactly one refresh request; a     *)
(* get_api / post_api call made with a token younger than auth_timeout     *)
(* sends the domain request and no refresh; one made auth_timeout + 1      *)
(* seconds after authenticated_at sends exactly one refresh and then the   *)
(* domain request.                                                         *)
(***************************************************************************)
C1_Step ==
    /\ (pc = "new" /\ pc' # "new") =>
          (Len(trace') = 1 /\ IsRefresh(trace'[1]))
    /\ (ApiStep /\ ~TokenAbsent(self) /\ self.authenticated_at # NoTime) =>
          LET new == NewEntries
              age == now - self.authenticated_at
          IN  /\ age < self.auth_timeout =>
                    (Len(new) = 1 /\ IsDomain(new[1]))
              /\ age = self.auth_timeout + 1 =>
                    (Len(new) = 2 /\ IsRefresh(new[1]) /\ IsDomain(new[2]))

C1_RefreshCounting == [][C1_Step]_vars

\* a call made at second auth_timeout + 1 with the token of second 0 sent
\* one refresh, answered 200 with a token, and then its request
C1_Witness ==
    /\ pc = "idle"
    /\ Len(trace) = 2
    /\ IsRefresh(trace[1]) /\ trace[1].site = "stale"
    /\ trace[1].status = 200 /\ trace[1].token # None
    /\ IsDomain(trace[2]) /\ trace[2].t = auth_timeout + 1
    /\ trace[2].bearer = trace[1].token

(***************************************************************************)
(* C2. A failed refresh never raises: whenever authenticate() sends a      *)
(* refresh that is answered non-200, it returns normally and get_api /     *)
(* post_api goes on to send the domain request.                            *)
(***************************************************************************)
C2_Step ==
    (ApiStep /\ \E i \in 1..Len(NewEntries) :
                   IsRefresh(NewEntries[i]) /\ NewEntries[i].status # 200) =>
        /\ ~(ret'.kind = "raise" /\ ret'.where = "authenticate")
        /\ IsDomain(NewEntries[Len(NewEntries)])

C2_FailedRefreshNeverRaises == [][C2_Step]_vars

LastPage(e) == e.status # 200 \/ e.hasNextPage \in {"false", "absent"}

C4_LoopEnds ==
    LET P == DomainEntries
    IN  \A k \in 1..Len(P) :
            LastPage(P[k]) =>
                (k = Len(P) /\ pc = "idle" /\ ret.kind = "return")

\* a second page without hasNextPage ended a listing below its limit
C4_Witness ==
    /\ pc = "idle" /\ ret.kind = "return" /\ ret.val = "list"
    /\ Len(DomainEntries) = 2
    /\ DomainEntries[2].status = 200
    /\ DomainEntries[2].hasNextPage = "absent"
    /\ Len(ret.list) < DomainEntries[1].params.limit

(***************************************************************************)
(* C5. Partial results: when the j-th list request is answered non-200,    *)
(* the listing returns, without raising and without another request, the   *)
(* merits of pages 1..j-1 in order (the empty list when j = 1).            *)
(***************************************************************************)
C5_PartialResult ==
    LET P == DomainEntries
    IN  \A j \in 1..Len(P) :
            P[j].status # 200 =>
                /\ j = Len(P)
                /\ pc = "idle"
                /\ ret.kind = "return" /\ ret.val = "list"
                /\ ret.list = PagesUpTo(P, j - 1)

\* the second request failed and the first page was returned
C5_Witness ==
    /\ pc = "idle" /\ ret.kind = "return" /\ ret.val = "list"
    /\ Len(DomainEntries) = 2
    /\ DomainEntries[2].status = 500
    /\ Len(ret.list) = DomainEntries[1].n
    /\ Len(ret.list) > 0

(***************************************************************************)
(* C6. Staleness boundary.  As claimed: authenticate() refreshes exactly   *)
(* when the token is absent or now >= authenticated_at + auth_timeout.     *)
(* As the code has it: exactly when the token is absent or                 *)
(* now > authenticated_at + auth_timeout; at now = authenticated_at +      *)
(* auth_timeout a present token is still used without a refresh.           *)
(***************************************************************************)
RefreshSent == \E i \in 1..Len(NewEntries) : IsRefresh(NewEntries[i])

\* C6 as claimed: the boundary instant counts as stale
C6_Step_Claimed ==
    ApiStep =>
        (RefreshSent <=>
            (TokenAbsent(self)
                \/ now >= self.authenticated_at + self.auth_timeout))

C6_StaleAtBoundary == [][C6_Step_Claimed]_vars

\* C6 as amended: stale only after the boundary instant
C6_Step ==
    ApiStep =>
        (RefreshSent <=>
            (TokenAbsent(self)
                \/ now > self.authenticated_at + self.auth_timeout))

C6_StaleAfterBoundary == [][C6_Step]_vars

\* a call made exactly auth_timeout after authenticated_at sent its request
\* with the old token and no refresh
C6_Witness ==
    /\ pc = "idle"
    /\ Len(trace) = 1
    /\ IsDomain(trace[1])
    /\ trace[1].bearer # None
    /\ trace[1].t = self.authenticated_at + self.auth_timeout

(***************************************************************************)
(* C7. Sentinel on server error: with a fresh valid token, a method whose  *)
(* domain requests are all answered 500 returns None, an empty list or     *)
(* False and does not raise.                                               *)
(***************************************************************************)
FreshToken(s, t) ==
    ~TokenAbsent(s) /\ s.authenticated_at # NoTime
        /\ t - s.authenticated_at < s.auth_timeout

C7_SentinelOn500 ==
    (/\ pc = "idle"
     /\ ret.kind \in {"return", "raise"}
     /\ ret.where # "validate"
     /\ FreshToken(self, now)
     /\ trace # <<>>
     /\ \A i \in 1..Len(trace) : IsDomain(trace[i]) /\ trace[i].status = 500) =>
        /\ ret.kind = "return"
        /\ \/ ret.val \in {"None", "False"}
           \/ ret.val = "list" /\ ret.list = <<>> /\ ret.got = <<>>

(***************************************************************************)
(* C8. Effect of a refresh: answered 200, it sets authenticated_at to the  *)
(* current time and org_access_token to the returned value; answered       *)
(* non-200, it changes neither, and both are absent while no refresh has   *)
(* succeeded.                                                              *)
(***************************************************************************)
C8_Step ==
    LET new == NewEntries
        sent == {i \in 1..Len(new) : IsRefresh(new[i])}
        ok == {i \in sent : new[i].status = 200}
    IN  /\ ok # {} =>
              LET last == CHOOSE i \in ok : \A j \in ok : j <= i
              IN  /\ self'.authenticated_at = now
                  /\ self'.org_access_token = new[last].token
        /\ (sent # {} /\ ok = {}) =>
              /\ self'.authenticated_at = self.authenticated_at
              /\ self'.org_access_token = self.org_access_token

C8_RefreshEffect ==
    /\ [](self.authenticated_at = NoTime => self.org_access_token = None)
    /\ [][C8_Step]_vars

\* in one authenticate() the first refresh failed and left the fields as
\* they were, the second was answered 200 and set both
C8_Witness ==
    /\ pc = "idle"
    /\ Len(trace) = 3
    /\ IsRefresh(trace[1]) /\ trace[1].status # 200
    /\ IsRefresh(trace[2]) /\ trace[2].status = 200 /\ trace[2].token # None
    /\ self.org_access_token = trace[2].token
    /\ self.authenticated_at = trace[2].t
    /\ self.authenticated_at > 0

(***************************************************************************)
(* C9. Frame of the session fields after construction.  As claimed: no     *)
(* method changes org_id or auth_timeout, and the token fields change only *)
(* through a refresh.  As the code has it: the same, except that           *)
(* get_org_id_from_token, answered 200 with an orgId, stores that orgId in *)
(* org_id.                                                                 *)
(***************************************************************************)
TokenFieldsFrame ==
    (\/ self'.org_access_token # self.org_access_token
     \/ self'.authenticated_at # self.authenticated_at) =>
        \E i \in 1..Len(NewEntries) :
            IsRefresh(NewEntries[i]) /\ NewEntries[i].status = 200

\* C9 as claimed
C9_Step_Claimed ==
    pc # "new" =>
        /\ self'.org_id = self.org_id
        /\ self'.auth_timeout = self.auth_timeout
        /\ TokenFieldsFrame

C9_OnlyRefreshMutates == [][C9_Step_Claimed]_vars

\* C9 as amended
C9_Step ==
    pc # "new" =>
        /\ self'.auth_timeout = self.auth_timeout
        /\ TokenFieldsFrame
        /\ self'.org_id # self.org_id =>
              /\ pc = "idle" /\ pc' = "idle"
              /\ Len(trace') = 1
              /\ trace'[1].kind = "basic" /\ trace'[1].verb = "GET"
              /\ trace'[1].status = 200
              /\ ret' = Return("value")
              /\ self'.org_access_token = self.org_access_token
              /\ self'.authenticated_at = self.authenticated_at

C9_Frame == [][C9_Step]_vars

\* get_org_id_from_token has replaced the org_id the session was built with
C9_Witness ==
    /\ pc = "idle"
    /\ self.org_id = "org2"
    /\ Len(trace) = 1 /\ trace[1].kind = "basic" /\ trace[1].status = 200

(***************************************************************************)
(* C10. Enum validation before any request.  As claimed: every supplied    *)
(* merit_status outside valid_statuses and every permissions element       *)
(* outside valid_permissions makes the call raise with no request sent.    *)
(* As the code has it: the same for permissions and for every truthy       *)
(* merit_status; a falsy merit_status ("", 0) is treated as not supplied   *)
(* and the listing goes ahead without the filter.                          *)
(***************************************************************************)
ValidStatus(x) == x.ty = "str" /\ x.v \in valid_statuses
ValidPermission(x) == x.ty = "str" /\ x.v \in valid_permissions

\* validation errors come before any request
RejectedBeforeRequests ==
    (ret.kind = "raise" /\ ret.where = "validate") =>
        (pc = "idle" /\ trace = <<>>)

PermissionsChecked ==
    (pc = "busy" /\ call.op = "login_with_merit") =>
        \A i \in 1..Len(call.arg.items) : ValidPermission(call.arg.items[i])

\* C10 as claimed: only None counts as not supplied
C10_EveryInvalidStatusRaises ==
    /\ RejectedBeforeRequests
    /\ PermissionsChecked
    /\ (pc = "busy" /\ call.op = "get_all_merits") =>
          (call.arg = PyNone \/ ValidStatus(call.arg))

\* C10 as amended
C10_TruthyInvalidStatusRaises ==
    /\ RejectedBeforeRequests
    /\ PermissionsChecked
    /\ (pc = "busy" /\ call.op = "get_all_merits") =>
          (~Truthy(call.arg) \/ ValidStatus(call.arg))

\* an unknown status was rejected with no request sent
C10_Witness ==
    /\ pc = "idle"
    /\ ret.kind = "raise" /\ ret.val = "MeritStatusException"
    /\ ret.arg = PyStr("Bogus")
    /\ trace = <<>>

(***************************************************************************)
(* C11. Request body of login_with_merit: asked for                        *)
(* CanViewAllStandardMeritsFromOrg with org_ids None or [], the call       *)
(* raises before any request; otherwise a call that passed validation      *)
(* sends one POST whose requestedPermissions is one base entry per         *)
(* permission, in order, followed, when that permission is asked for, by   *)
(* one orgId entry per org id, in order, and by nothing when it is not.    *)
(* (The POST is sent unless authenticate() raises, see C2.)                *)
(***************************************************************************)
StringList(x) ==
    x.ty = "list" /\ \A i \in 1..Len(x.items) : x.items[i].ty = "str"

RequestsFromOrg(permissions) ==
    /\ permissions.ty = "list"
    /\ \E i \in 1..Len(permissions.items) :
          permissions.items[i] = PyStr("CanViewAllStandardMeritsFromOrg")

BaseEntries(permissions) ==
    [i \in 1..Len(permissions.items) |->
        [permissionType |-> permissions.items[i].v, orgId |-> None]]

OrgEntries(org_ids) ==
    [i \in 1..Len(org_ids.items) |->
        [permissionType |-> "CanViewAllStandardMeritsFromOrg",
         orgId |-> org_ids.items[i].v]]

LoginRunning == pc = "busy" /\ call.op = "login_with_merit"

C11_Step ==
    (LoginRunning /\ (pc' = "idle" \/ trace' # trace)) =>
        LET sent == SelectSeq(NewEntries, IsDomain)
            raised == ret'.kind = "raise" /\ ret'.where = "authenticate"
        IN  /\ pc' = "idle"
            /\ Len(sent) = (IF raised THEN 0 ELSE 1)
            /\ \A i \in 1..Len(sent) :
                  /\ sent[i].verb = "POST"
                  /\ sent[i].body =
                        BaseEntries(call.arg)
                            \o (IF RequestsFromOrg(call.arg)
                                THEN OrgEntries(call.org_ids) ELSE <<>>)

C11_LoginBody ==
    /\ [](RejectedBeforeRequests)
    /\ [](LoginRunning /\ RequestsFromOrg(call.arg) =>
              (StringList(call.org_ids) /\ call.org_ids.items # <<>>))
    /\ [][C11_Step]_vars

\* two permissions and two org ids went out as two base entries followed by
\* two orgId entries
C11_Witness ==
    /\ pc = "idle"
    /\ Len(trace) >= 1
    /\ LET e == trace[Len(trace)]
       IN  /\ IsDomain(e) /\ e.verb = "POST"
           /\ e.body =
                 <<[permissionType |-> "CanViewPublicProfile", orgId |-> None],
                   [permissionType |-> "CanViewAllStandardMeritsFromOrg",
                    orgId |-> None],
                   [permissionType |-> "CanViewAllStandardMeritsFromOrg",
                    orgId |-> "org2"],
                   [permissionType |-> "CanViewAllStandardMeritsFromOrg",
                    orgId |-> "org3"]>>

(***************************************************************************)
(* C12. List-type validation of login_with_merit: a call whose permissions *)
(* is not a list or holds a non-string, or whose org_ids is given and is   *)
(* not a list of strings, raises before any request, whichever permissions *)
(* are asked for.  As the code has it, org_ids is looked at only when      *)
(* CanViewAllStandardMeritsFromOrg is among the permissions.               *)
(***************************************************************************)
\* C12 as claimed
C12_ListTypesAlwaysChecked ==
    /\ RejectedBeforeRequests
    /\ LoginRunning =>
          /\ StringList(call.arg)
          /\ call.org_ids = PyNone \/ StringList(call.org_ids)

\* C12 as amended
C12_ListTypesChecked ==
    /\ RejectedBeforeRequests
    /\ LoginRunning =>
          /\ StringList(call.arg)
          /\ RequestsFromOrg(call.arg) => StringList(call.org_ids)

\* org_ids holding a non-string was rejected with no request sent
C12_Witness ==
    /\ pc = "idle"
    /\ ret.kind = "raise" /\ ret.val = "TypeError" /\ ret.where = "validate"
    /\ RequestsFromOrg(ret.arg)
    /\ ret.org_ids = PyList(<<PyStr("org2"), PyInt("7")>>)
    /\ trace = <<>>

(***************************************************************************)
(* C13. Cursor continuation: the first request of a listing carries no     *)
(* starting_after; the (k+1)-th carries the paging.cursors.after of the    *)
(* k-th answer ("" when the answer has none) and the limit and filter      *)
(* parameters of the first; and it is sent only after a k-th answer that   *)
(* was 200 with hasNextPage true and left the list shorter than limit.     *)
(***************************************************************************)
SameFilters(p, q) ==
    /\ p.limit = q.limit
    /\ p.merit_status = q.merit_status
    /\ p.merittemplate_id = q.merittemplate_id
    /\ p.recipient_email = q.recipient_email

C13_CursorContinuation ==
    LET D == DomainEntries
    IN  /\ Len(D) >= 1 => D[1].params.starting_after = None
        /\ \A k \in 1..(Len(D) - 1) :
              /\ D[k + 1].params.starting_after =
                    (IF D[k].after = None THEN "" ELSE D[k].after)
              /\ SameFilters(D[k + 1].params, D[1].params)
              /\ D[k].status = 200
              /\ D[k].hasNextPage = "true"
              /\ Len(PagesUpTo(D, k)) < D[1].params.limit

\* a filtered listing of three pages: the second request carried the
\* cursor of the first answer, the third the cursor of the second
C13_Witness ==
    LET D == DomainEntries
    IN  /\ pc = "idle"
        /\ Len(D) = 3
        /\ D[1].params.merit_status = "Pending"
        /\ D[1].after = "c1" /\ D[2].params.starting_after = "c1"
        /\ D[2].after = "c2" /\ D[3].params.starting_after = "c2"
        /\ D[3].params.merit_status = "Pending"

(***************************************************************************)
(* C14. Token freshness at send time: the stored token is always the one   *)
(* the latest successful refresh returned; a get_api / post_api call whose *)
(* refreshes are all answered 200 with a token sends its request with the  *)
(* token of the latest refresh as bearer, and when authenticate() returns  *)
(* that token is at most auth_timeout old; authenticate() sends at most    *)
(* two refreshes, and two only when the token was absent, the first        *)
(* refresh did not set authenticated_at, and authenticated_at is more than *)
(* auth_timeout old.                                                       *)
(***************************************************************************)
RefreshOk(e) == e.status = 200 /\ e.token # None

C14_Step ==
    LET new == NewEntries
        R == SelectSeq(new, IsRefresh)
        D == SelectSeq(new, IsDomain)
    IN  /\ self'.org_access_token # self.org_access_token =>
              /\ R # <<>>
              /\ \E i \in 1..Len(R) :
                    /\ R[i].status = 200
                    /\ R[i].token = self'.org_access_token
                    /\ \A j \in (i + 1)..Len(R) : R[j].status # 200
        /\ ApiStep =>
              /\ Len(R) <= 2
              /\ Len(R) = 2 =>
                    /\ TokenAbsent(self)
                    /\ R[1].status # 200
                    /\ self.authenticated_at # NoTime
                    /\ now - self.authenticated_at > self.auth_timeout
              /\ (\A i \in 1..Len(R) : RefreshOk(R[i])) =>
                    /\ Len(D) = 1
                    /\ D[1].bearer = (IF R # <<>> THEN R[Len(R)].token
                                      ELSE self.org_access_token)
                    /\ D[1].bearer = self'.org_access_token
                    /\ self'.authenticated_at # NoTime
                    /\ now - self'.authenticated_at <= self.auth_timeout

C14_TokenFreshAtSend == [][C14_Step]_vars

\* two timeouts after construction a GET found the token stale, refreshed
\* once and went out with the second token
C14_Witness ==
    /\ pc = "idle"
    /\ Len(trace) = 2
    /\ IsRefresh(trace[1]) /\ trace[1].site = "stale"
    /\ trace[1].status = 200 /\ trace[1].token = "tokB"
    /\ IsDomain(trace[2]) /\ trace[2].verb = "GET"
    /\ trace[2].bearer = "tokB"
    /\ now = 2 * auth_timeout
    /\ self.authenticated_at = now

=============================================================================
